---- MODULE Spec2Model ----
(***************************************************************************)
(* Model of scripts/faad2_debug.c: the ADTS sync scanner, the ADTS header  *)
(* parser, the artifact writers and the decode driver loop of main().      *)
(* The FAAD2 library (NeAACDecOpen/Init/Decode/Close), fopen, malloc and   *)
(* fread are the environment: their outcomes are nondeterministic choices. *)
(***************************************************************************)
EXTENDS Integers, Sequences, FiniteSets, TLC

VARIABLES
    pc,            \* position of main(): the statement about to run
    input,         \* bytes of the file at input_path (file_data after fread)
    max_frames,    \* int max_frames (line 203)
    sync_offset,   \* int sync_offset (line 232)
    sample_rate,   \* unsigned long sample_rate (line 257)
    channels,      \* unsigned char channels (line 258)
    pos,           \* size_t pos (line 274)
    frame_num,     \* int frame_num (line 275)
    total_samples, \* unsigned long total_samples (line 276)
    adts_hdr,      \* adts_header_t adts_hdr of the current iteration (line 285)
    log,           \* calls made to the environment, in order
    exit_status,   \* value returned by main(), -1 while running
    arg,           \* argument of a stand-alone call of a pure function
    ret            \* its result

vars == <<pc, input, max_frames, sync_offset, sample_rate, channels, pos,
          frame_num, total_samples, adts_hdr, log, exit_status, arg, ret>>

(***************************************************************************)
(* Bounds of the model.                                                    *)
(***************************************************************************)
MaxChunks == 3       \* an input stream is at most this many chunks
MaxSyncLen == 4      \* buffers handed to a stand-alone find_adts_sync

(***************************************************************************)
(* Program constants.                                                      *)
(***************************************************************************)
ADTS_HEADER_SIZE == 7
INT32_MAX == 2147483647
FAAD_FMT_16BIT == "FAAD_FMT_16BIT"

(***************************************************************************)
(* C integer operators on non-negative values.                             *)
(***************************************************************************)
RECURSIVE BitAnd(_, _)
BitAnd(a, b) ==
    IF a = 0 \/ b = 0 THEN 0
    ELSE (a % 2) * (b % 2) + 2 * BitAnd(a \div 2, b \div 2)

RECURSIVE BitOr(_, _)
BitOr(a, b) ==
    IF a = 0 THEN b
    ELSE IF b = 0 THEN a
    ELSE (IF a % 2 = 1 \/ b % 2 = 1 THEN 1 ELSE 0) + 2 * BitOr(a \div 2, b \div 2)

Shl(a, k) == a * 2^k
Shr(a, k) == a \div 2^k
U8(x) == x % 256
\* mutant: a 16-bit field stored in 8 bits
U16Narrow(x) == x % 256

U16(x) == x % 65536

\* data[i] of a C pointer: the sequence is the memory from the pointer on
At(data, i) == data[i + 1]

\* file_data + off
PtrAdd(data, off) == SubSeq(data, off + 1, Len(data))

(***************************************************************************)
(* parse_adts_header (lines 55-80): [rc |-> -1] or [rc |-> 0, hdr |-> ...] *)
(***************************************************************************)
NoHdr == [syncword |-> 0, id |-> 0, layer |-> 0, protection_absent |-> 0,
          profile |-> 0, sf_index |-> 0, private_bit |-> 0,
          channel_config |-> 0, original |-> 0, home |-> 0,
          copyright_bit |-> 0, copyright_start |-> 0, frame_length |-> 0,
          buffer_fullness |-> 0, num_raw_blocks |-> 0]

parse_adts_header(data, len) ==
    IF len < ADTS_HEADER_SIZE THEN [rc |-> -1, hdr |-> NoHdr]
    ELSE IF At(data, 0) # 255 \/ BitAnd(At(data, 1), 240) # 240
    THEN [rc |-> -1, hdr |-> NoHdr]
    ELSE [rc |-> 0, hdr |->
        [syncword |-> 4095,
         id |-> U8(BitAnd(Shr(At(data, 1), 3), 1)),
         layer |-> U8(BitAnd(Shr(At(data, 1), 1), 3)),
         protection_absent |-> U8(BitAnd(At(data, 1), 1)),
         profile |-> U8(BitAnd(Shr(At(data, 2), 6), 3)),
         sf_index |-> U8(BitAnd(Shr(At(data, 2), 2), 15)),
         private_bit |-> U8(BitAnd(Shr(At(data, 2), 1), 1)),
         channel_config |->
             U8(BitOr(Shl(BitAnd(At(data, 2), 1), 2),
                      BitAnd(Shr(At(data, 3), 6), 3))),
         original |-> U8(BitAnd(Shr(At(data, 3), 5), 1)),
         home |-> U8(BitAnd(Shr(At(data, 3), 4), 1)),
         copyright_bit |-> U8(BitAnd(Shr(At(data, 3), 3), 1)),
         copyright_start |-> U8(BitAnd(Shr(At(data, 3), 2), 1)),
         frame_length |->
             U16(BitOr(BitOr(Shl(BitAnd(At(data, 3), 3), 11),
                             Shl(At(data, 4), 3)),
                       BitAnd(Shr(At(data, 5), 5), 7))),
         buffer_fullness |->
             U16(BitOr(Shl(BitAnd(At(data, 5), 31), 6),
                       BitAnd(Shr(At(data, 6), 2), 63))),
         num_raw_blocks |-> U8(BitAnd(At(data, 6), 3))]]

(***************************************************************************)
(* find_adts_sync (lines 90-97)                                            *)
(***************************************************************************)
\* mutant: the scan stops one pair early (i + 2 < len)
RECURSIVE find_adts_sync_from_short(_, _, _)
find_adts_sync_from_short(data, len, i) ==
    IF i + 2 < len
    THEN IF At(data, i) = 255 /\ BitAnd(At(data, i + 1), 240) = 240
         THEN i
         ELSE find_adts_sync_from_short(data, len, i + 1)
    ELSE -1

RECURSIVE find_adts_sync_from(_, _, _)
find_adts_sync_from(data, len, i) ==
    IF i + 1 < len
    THEN IF At(data, i) = 255 /\ BitAnd(At(data, i + 1), 240) = 240
         THEN i
         ELSE find_adts_sync_from(data, len, i + 1)
    ELSE -1

\* mutant: "not found" is reported as offset 0
find_adts_sync_zero(data, len) ==
    IF find_adts_sync_from(data, len, 0) < 0 THEN 0 ELSE find_adts_sync_from(data, len, 0)

find_adts_sync(data, len) == find_adts_sync_from(data, len, 0)

(***************************************************************************)
(* Artifact writers (lines 100-177).  A write is recorded as the path and  *)
(* the bytes handed to fopen/fwrite.                                       *)
(***************************************************************************)
RECURSIVE Digits(_)
Digits(n) == IF n < 10 THEN <<n>> ELSE Digits(n \div 10) \o <<n % 10>>

RECURSIVE ZeroPad(_, _)
ZeroPad(ds, width) == IF Len(ds) >= width THEN ds ELSE ZeroPad(<<0>> \o ds, width)

\* printf's %04d of a non-negative int
Fmt04d(n) == ZeroPad(Digits(n), 4)

AdtsPath(frame) == <<"frame_", Fmt04d(frame), "_adts.bin">>
PcmPath(frame) == <<"frame_", Fmt04d(frame), "_pcm.bin">>
InfoPath == <<"info.json">>

\* a call made to the environment: its name, its two arguments of interest
\* and what it returned (0 when main() does not read the result)
EvR(op, a, b, r) == [op |-> op, a |-> a, b |-> b, r |-> r]
Ev(op, a, b) == EvR(op, a, b, 0)

dump_binary(path, data) == Ev("write", path, data)

dump_adts_header(frame, hdr) ==
    dump_binary(AdtsPath(frame),
        << BitAnd(Shr(hdr.syncword, 8), 255),
           BitAnd(hdr.syncword, 255),
           hdr.id,
           hdr.layer,
           hdr.protection_absent,
           hdr.profile,
           hdr.sf_index,
           hdr.private_bit,
           hdr.channel_config,
           hdr.original,
           hdr.home,
           BitAnd(Shr(hdr.frame_length, 8), 255),
           BitAnd(hdr.frame_length, 255),
           BitAnd(Shr(hdr.buffer_fullness, 8), 255),
           BitAnd(hdr.buffer_fullness, 255),
           hdr.num_raw_blocks >>)

\* the switch of lines 145-152
sample_size(format) ==
    CASE format = FAAD_FMT_16BIT -> 2
      [] format = "FAAD_FMT_24BIT" -> 4
      [] format = "FAAD_FMT_32BIT" -> 4
      [] format = "FAAD_FMT_FLOAT" -> 4
      [] format = "FAAD_FMT_DOUBLE" -> 8
      [] OTHER -> 2

\* the PCM payload is recorded by its byte count
dump_pcm(frame, num_samples, chans, format) ==
    dump_binary(PcmPath(frame), <<num_samples * chans * sample_size(format)>>)

write_info_json(rate, chans, total_frames, total) ==
    Ev("write", InfoPath,
       [sample_rate |-> rate, channels |-> chans,
        total_frames |-> total_frames, total_samples |-> total])

(***************************************************************************)
(* The input streams: concatenations of at most MaxChunks chunks.          *)
(***************************************************************************)
Frame7 == <<255, 241, 80, 128, 0, 224, 252>>    \* frame_length = 7, no payload
Frame9 == <<255, 249, 76, 140, 1, 32, 3>>        \* frame_length = 9, payload not included
ShortLen == <<255, 241, 80, 128, 0, 96, 252>>    \* frame_length = 3
Junk == <<0>>
LoneFF == <<255>>

Chunks == {Frame7, Frame9, ShortLen, Junk, LoneFF}

RECURSIVE Streams(_)
Streams(n) ==
    IF n = 0 THEN {<< >>}
    ELSE LET S == Streams(n - 1) IN S \cup {s \o c : s \in S, c \in Chunks}

MaxFramesArgs == {-1, 0, 1, INT32_MAX}

file_data == input
file_size == Len(input)

(***************************************************************************)
(* Outcomes of the FAAD2 calls.                                            *)
(***************************************************************************)
\* NeAACDecInit on success: *samplerate, *channels
InitResults == {[sample_rate |-> 44100, channels |-> 2],
                [sample_rate |-> 48000, channels |-> 1]}

\* NeAACDecDecode: the returned pointer and the NeAACDecFrameInfo fields read
DecodeResults ==
    {[ptr |-> "NULL", error |-> 5, samples |-> 0, channels |-> 0, bytesconsumed |-> 0],
     [ptr |-> "buf", error |-> 0, samples |-> 2048, channels |-> 2, bytesconsumed |-> 7],
     [ptr |-> "NULL", error |-> 0, samples |-> 0, channels |-> 2, bytesconsumed |-> 9]}

(***************************************************************************)
(* main (lines 195-341)                                                    *)
(***************************************************************************)
Init ==
    /\ pc = "fopen"
    /\ input \in Streams(MaxChunks)
    /\ max_frames \in MaxFramesArgs
    /\ sync_offset = 0
    /\ sample_rate = 0
    /\ channels = 0
    /\ pos = 0
    /\ frame_num = 0
    /\ total_samples = 0
    /\ adts_hdr = NoHdr
    /\ log = << >>
    /\ exit_status = -1
    /\ arg = << >>
    /\ ret = << >>

Return(status, events) ==
    /\ pc' = "exit"
    /\ exit_status' = status
    /\ log' = log \o events

\* lines 206-210
OpenFail ==
    /\ pc = "fopen"
    /\ Return(1, << >>)
    /\ UNCHANGED <<input, max_frames, sync_offset, sample_rate, channels, pos,
                   frame_num, total_samples, adts_hdr, arg, ret>>

\* lines 206, 212-214
OpenOk ==
    /\ pc = "fopen"
    /\ pc' = "malloc"
    /\ log' = Append(log, Ev("fopen", 0, 0))
    /\ UNCHANGED <<input, max_frames, sync_offset, sample_rate, channels, pos,
                   frame_num, total_samples, adts_hdr, exit_status, arg, ret>>

\* lines 216-221
MallocFail ==
    /\ pc = "malloc"
    /\ Return(1, <<Ev("fclose", 0, 0)>>)
    /\ UNCHANGED <<input, max_frames, sync_offset, sample_rate, channels, pos,
                   frame_num, total_samples, adts_hdr, arg, ret>>

\* line 216
MallocOk ==
    /\ pc = "malloc"
    /\ pc' = "fread"
    /\ log' = Append(log, Ev("malloc", file_size, 0))
    /\ UNCHANGED <<input, max_frames, sync_offset, sample_rate, channels, pos,
                   frame_num, total_samples, adts_hdr, exit_status, arg, ret>>

\* lines 223-228
ReadFail ==
    /\ pc = "fread"
    /\ file_size > 0
    /\ Return(1, <<Ev("free", 0, 0), Ev("fclose", 0, 0)>>)
    /\ UNCHANGED <<input, max_frames, sync_offset, sample_rate, channels, pos,
                   frame_num, total_samples, adts_hdr, arg, ret>>

\* lines 223, 229
ReadOk ==
    /\ pc = "fread"
    /\ pc' = "sync"
    /\ log' = Append(log, Ev("fclose", 0, 0))
    /\ UNCHANGED <<input, max_frames, sync_offset, sample_rate, channels, pos,
                   frame_num, total_samples, adts_hdr, exit_status, arg, ret>>

\* lines 232-237
NoSync ==
    /\ pc = "sync"
    /\ find_adts_sync(file_data, file_size) < 0
    /\ sync_offset' = find_adts_sync(file_data, file_size)
    /\ Return(1, <<Ev("free", 0, 0)>>)
    /\ UNCHANGED <<input, max_frames, sample_rate, channels, pos,
                   frame_num, total_samples, adts_hdr, arg, ret>>

\* lines 232-240
FoundSync ==
    /\ pc = "sync"
    /\ find_adts_sync(file_data, file_size) >= 0
    /\ sync_offset' = find_adts_sync(file_data, file_size)
    /\ pc' = "NeAACDecOpen"
    /\ UNCHANGED <<input, max_frames, sample_rate, channels, pos, frame_num,
                   total_samples, adts_hdr, log, exit_status, arg, ret>>

\* lines 243-248
DecOpenFail ==
    /\ pc = "NeAACDecOpen"
    /\ Return(1, <<Ev("free", 0, 0)>>)
    /\ UNCHANGED <<input, max_frames, sync_offset, sample_rate, channels, pos,
                   frame_num, total_samples, adts_hdr, arg, ret>>

\* lines 243, 251-254
DecOpenOk ==
    /\ pc = "NeAACDecOpen"
    /\ pc' = "NeAACDecInit"
    /\ log' = Append(log, Ev("NeAACDecOpen", 0, 0))
    /\ UNCHANGED <<input, max_frames, sync_offset, sample_rate, channels, pos,
                   frame_num, total_samples, adts_hdr, exit_status, arg, ret>>

\* mutant: the init failure path frees the buffer but leaves the decoder open
DecInitFailLeak ==
    /\ pc = "NeAACDecInit"
    /\ Return(1, <<Ev("NeAACDecInit", sync_offset, file_size - sync_offset),
                   Ev("free", 0, 0)>>)
    /\ UNCHANGED <<input, max_frames, sync_offset, sample_rate, channels, pos,
                   frame_num, total_samples, adts_hdr, arg, ret>>

\* lines 257-268
DecInitFail ==
    /\ pc = "NeAACDecInit"
    /\ Return(1, <<Ev("NeAACDecInit", sync_offset, file_size - sync_offset),
                   Ev("NeAACDecClose", 0, 0), Ev("free", 0, 0)>>)
    /\ UNCHANGED <<input, max_frames, sync_offset, sample_rate, channels, pos,
                   frame_num, total_samples, adts_hdr, arg, ret>>

\* lines 257-262, 270-276
DecInitOk ==
    /\ pc = "NeAACDecInit"
    /\ \E r \in InitResults :
        /\ sample_rate' = r.sample_rate
        /\ channels' = r.channels
        /\ log' = Append(log, EvR("NeAACDecInit", sync_offset, file_size - sync_offset, r))
    /\ pos' = sync_offset
    /\ frame_num' = 0
    /\ total_samples' = 0
    /\ pc' = "loop"
    /\ UNCHANGED <<input, max_frames, sync_offset, adts_hdr, exit_status, arg, ret>>

\* mutant: frame_num <= max_frames
LoopCondLe == pos < file_size /\ frame_num <= max_frames

\* mutant: the loop ignores max_frames
LoopCondNoCap == pos < file_size

\* line 278: the loop condition
LoopCond == pos < file_size /\ frame_num < max_frames

\* line 280
next_sync == find_adts_sync(PtrAdd(file_data, pos), file_size - pos)

\* line 278, condition false
LoopDone ==
    /\ pc = "loop"
    /\ ~LoopCond
    /\ pc' = "summary"
    /\ UNCHANGED <<input, max_frames, sync_offset, sample_rate, channels, pos,
                   frame_num, total_samples, adts_hdr, log, exit_status, arg, ret>>

\* mutant: leaving the loop on "no further sync" goes straight to the cleanup
ScanNotFoundSkipsSummary ==
    /\ pc = "loop"
    /\ LoopCond
    /\ next_sync < 0
    /\ pc' = "cleanup"
    /\ UNCHANGED <<input, max_frames, sync_offset, sample_rate, channels, pos,
                   frame_num, total_samples, adts_hdr, log, exit_status, arg, ret>>

\* lines 278-281, break
ScanNotFound ==
    /\ pc = "loop"
    /\ LoopCond
    /\ next_sync < 0
    /\ pc' = "summary"
    /\ UNCHANGED <<input, max_frames, sync_offset, sample_rate, channels, pos,
                   frame_num, total_samples, adts_hdr, log, exit_status, arg, ret>>

\* lines 278-282
ScanFound ==
    /\ pc = "loop"
    /\ LoopCond
    /\ next_sync >= 0
    /\ pos' = pos + next_sync
    /\ pc' = "header"
    /\ UNCHANGED <<input, max_frames, sync_offset, sample_rate, channels,
                   frame_num, total_samples, adts_hdr, log, exit_status, arg, ret>>

\* line 286
parsed == parse_adts_header(PtrAdd(file_data, pos), file_size - pos)

\* mutant: the frame length is not compared with the end of the buffer
BadLengthNoUpper(hdr) == hdr.frame_length < ADTS_HEADER_SIZE

\* lines 293-294
BadLength(hdr) ==
    \/ hdr.frame_length < ADTS_HEADER_SIZE
    \/ pos + hdr.frame_length > file_size

\* mutant: a rejected header counts as a frame
RejectHeaderCounting ==
    /\ pc = "header"
    /\ parsed.rc < 0
    /\ pos' = pos + 1
    /\ frame_num' = frame_num + 1
    /\ pc' = "loop"
    /\ UNCHANGED <<input, max_frames, sync_offset, sample_rate, channels,
                   total_samples, adts_hdr, log, exit_status, arg, ret>>

\* lines 286-290
RejectHeader ==
    /\ pc = "header"
    /\ parsed.rc < 0
    /\ pos' = pos + 1
    /\ pc' = "loop"
    /\ UNCHANGED <<input, max_frames, sync_offset, sample_rate, channels,
                   frame_num, total_samples, adts_hdr, log, exit_status, arg, ret>>

\* mutant: a rejected frame length does not advance pos
RejectLengthNoAdvance ==
    /\ pc = "header"
    /\ parsed.rc >= 0
    /\ BadLength(parsed.hdr)
    /\ pos' = pos
    /\ pc' = "loop"
    /\ UNCHANGED <<input, max_frames, sync_offset, sample_rate, channels,
                   frame_num, total_samples, adts_hdr, log, exit_status, arg, ret>>

\* mutant: a rejected frame length skips the whole 7-byte header
RejectLengthSkipsHeader ==
    /\ pc = "header"
    /\ parsed.rc >= 0
    /\ BadLength(parsed.hdr)
    /\ pos' = pos + ADTS_HEADER_SIZE
    /\ pc' = "loop"
    /\ UNCHANGED <<input, max_frames, sync_offset, sample_rate, channels,
                   frame_num, total_samples, adts_hdr, log, exit_status, arg, ret>>

\* lines 286, 293-298
RejectLength ==
    /\ pc = "header"
    /\ parsed.rc >= 0
    /\ BadLength(parsed.hdr)
    /\ pos' = pos + 1
    /\ pc' = "loop"
    /\ UNCHANGED <<input, max_frames, sync_offset, sample_rate, channels,
                   frame_num, total_samples, adts_hdr, log, exit_status, arg, ret>>

\* lines 286, 293, 301
AcceptHeader ==
    /\ pc = "header"
    /\ parsed.rc >= 0
    /\ ~BadLength(parsed.hdr)
    /\ adts_hdr' = parsed.hdr
    /\ log' = Append(log, dump_adts_header(frame_num, parsed.hdr))
    /\ pc' = "decode"
    /\ UNCHANGED <<input, max_frames, sync_offset, sample_rate, channels, pos,
                   frame_num, total_samples, exit_status, arg, ret>>

\* mutant: the decoder is handed the declared frame length
DecodeCallFrameLength(r) == EvR("NeAACDecDecode", pos, adts_hdr.frame_length, r)

\* lines 305-307: the call made to the decoder
DecodeCall(r) == EvR("NeAACDecDecode", pos, file_size - pos, r)

\* mutant: pos advances by the bytes the decoder reports as consumed
AdvanceByConsumed ==
    /\ pos' = pos + log'[Len(log) + 1].r.bytesconsumed
    /\ frame_num' = frame_num + 1

\* lines 312-313 and 328-329
Advance ==
    /\ pos' = pos + adts_hdr.frame_length
    /\ frame_num' = frame_num + 1

\* mutant: the decode error path advances pos but not frame_num
DecodeErrorNoCount ==
    /\ pc = "decode"
    /\ \E r \in DecodeResults :
        /\ r.error # 0
        /\ log' = Append(log, DecodeCall(r))
    /\ pos' = pos + adts_hdr.frame_length
    /\ adts_hdr' = NoHdr
    /\ pc' = "loop"
    /\ UNCHANGED <<input, max_frames, sync_offset, sample_rate, channels,
                   frame_num, total_samples, exit_status, arg, ret>>

\* mutant: a decode error ends the run with status 1
DecodeErrorAbort ==
    /\ pc = "decode"
    /\ \E r \in DecodeResults :
        /\ r.error # 0
        /\ Return(1, <<DecodeCall(r), Ev("NeAACDecClose", 0, 0), Ev("free", 0, 0)>>)
    /\ UNCHANGED <<input, max_frames, sync_offset, sample_rate, channels, pos,
                   frame_num, total_samples, adts_hdr, arg, ret>>

\* lines 305-315
DecodeError ==
    /\ pc = "decode"
    /\ \E r \in DecodeResults :
        /\ r.error # 0
        /\ log' = Append(log, DecodeCall(r))
    /\ Advance
    /\ adts_hdr' = NoHdr
    /\ pc' = "loop"
    /\ UNCHANGED <<input, max_frames, sync_offset, sample_rate, channels,
                   total_samples, exit_status, arg, ret>>

\* mutant: samples >= 0 and no test of the returned pointer
HasSamplesGe(r) == r.samples >= 0

\* line 317
HasSamples(r) == r.ptr # "NULL" /\ r.samples > 0

\* mutant: frame_num is incremented only for a frame that produced samples
DecodeOkCountsPcmOnly ==
    /\ pc = "decode"
    /\ \E r \in DecodeResults :
        /\ r.error = 0
        /\ IF r.ptr # "NULL" /\ r.samples > 0
           THEN /\ log' = log \o <<DecodeCall(r),
                                   dump_pcm(frame_num, r.samples \div r.channels,
                                            r.channels, FAAD_FMT_16BIT)>>
                /\ total_samples' = total_samples + (r.samples \div r.channels)
                /\ frame_num' = frame_num + 1
           ELSE /\ log' = Append(log, DecodeCall(r))
                /\ total_samples' = total_samples
                /\ frame_num' = frame_num
    /\ pos' = pos + adts_hdr.frame_length
    /\ adts_hdr' = NoHdr
    /\ pc' = "loop"
    /\ UNCHANGED <<input, max_frames, sync_offset, sample_rate, channels,
                   exit_status, arg, ret>>

\* mutant: total_samples accumulates samples, not samples per channel
DecodeOkAddsSamples ==
    /\ pc = "decode"
    /\ \E r \in DecodeResults :
        /\ r.error = 0
        /\ IF r.ptr # "NULL" /\ r.samples > 0
           THEN /\ log' = log \o <<DecodeCall(r),
                                   dump_pcm(frame_num, r.samples \div r.channels,
                                            r.channels, FAAD_FMT_16BIT)>>
                /\ total_samples' = total_samples + r.samples
           ELSE /\ log' = Append(log, DecodeCall(r))
                /\ total_samples' = total_samples
    /\ pos' = pos + adts_hdr.frame_length
    /\ frame_num' = frame_num + 1
    /\ adts_hdr' = NoHdr
    /\ pc' = "loop"
    /\ UNCHANGED <<input, max_frames, sync_offset, sample_rate, channels,
                   exit_status, arg, ret>>

\* mutant: channels follows the channel count of the last decoded frame
DecodeOkTakesChannels ==
    /\ pc = "decode"
    /\ \E r \in DecodeResults :
        /\ r.error = 0
        /\ channels' = r.channels
        /\ IF r.ptr # "NULL" /\ r.samples > 0
           THEN /\ log' = log \o <<DecodeCall(r),
                                   dump_pcm(frame_num, r.samples \div r.channels,
                                            r.channels, FAAD_FMT_16BIT)>>
                /\ total_samples' = total_samples + (r.samples \div r.channels)
           ELSE /\ log' = Append(log, DecodeCall(r))
                /\ total_samples' = total_samples
    /\ pos' = pos + adts_hdr.frame_length
    /\ frame_num' = frame_num + 1
    /\ adts_hdr' = NoHdr
    /\ pc' = "loop"
    /\ UNCHANGED <<input, max_frames, sync_offset, sample_rate,
                   exit_status, arg, ret>>

\* lines 305-309, 317-329
DecodeOk ==
    /\ pc = "decode"
    /\ \E r \in DecodeResults :
        /\ r.error = 0
        /\ IF HasSamples(r)
           THEN /\ log' = log \o <<DecodeCall(r),
                                   dump_pcm(frame_num, r.samples \div r.channels,
                                            r.channels, FAAD_FMT_16BIT)>>
                /\ total_samples' = total_samples + (r.samples \div r.channels)
           ELSE /\ log' = Append(log, DecodeCall(r))
                /\ total_samples' = total_samples
    /\ Advance
    /\ adts_hdr' = NoHdr
    /\ pc' = "loop"
    /\ UNCHANGED <<input, max_frames, sync_offset, sample_rate, channels,
                   exit_status, arg, ret>>

\* line 333
WriteSummary ==
    /\ pc = "summary"
    /\ log' = Append(log, write_info_json(sample_rate, channels, frame_num, total_samples))
    /\ pc' = "cleanup"
    /\ UNCHANGED <<input, max_frames, sync_offset, sample_rate, channels, pos,
                   frame_num, total_samples, adts_hdr, exit_status, arg, ret>>

\* lines 337-340
Cleanup ==
    /\ pc = "cleanup"
    /\ Return(0, <<Ev("NeAACDecClose", 0, 0), Ev("free", 0, 0)>>)
    /\ UNCHANGED <<input, max_frames, sync_offset, sample_rate, channels, pos,
                   frame_num, total_samples, adts_hdr, arg, ret>>

Next ==
    \/ OpenFail \/ OpenOk \/ MallocFail \/ MallocOk \/ ReadFail \/ ReadOk
    \/ NoSync \/ FoundSync \/ DecOpenFail \/ DecOpenOk \/ DecInitFail \/ DecInitOk
    \/ LoopDone \/ ScanNotFound \/ ScanFound
    \/ RejectHeader \/ RejectLength \/ AcceptHeader
    \/ DecodeError \/ DecodeOk
    \/ WriteSummary \/ Cleanup

Spec == Init /\ [][Next]_vars

\* main() is one sequential thread: whenever a statement can run, it runs
FairSpec == Spec /\ WF_vars(Next)

(***************************************************************************)
(* Stand-alone calls of find_adts_sync on arbitrary small buffers.         *)
(***************************************************************************)
SyncBytes == {0, 15, 239, 240, 255}

RECURSIVE SeqsUpTo(_, _)
SeqsUpTo(S, n) ==
    IF n = 0 THEN {<< >>}
    ELSE LET T == SeqsUpTo(S, n - 1) IN T \cup {Append(t, x) : t \in T, x \in S}

Idle ==
    /\ input = << >> /\ max_frames = 0 /\ sync_offset = 0 /\ sample_rate = 0
    /\ channels = 0 /\ pos = 0 /\ frame_num = 0 /\ total_samples = 0
    /\ adts_hdr = NoHdr /\ log = << >> /\ exit_status = -1

IdleUnchanged ==
    UNCHANGED <<input, max_frames, sync_offset, sample_rate, channels, pos,
                frame_num, total_samples, adts_hdr, log, exit_status>>

InitSync ==
    /\ pc = "sync_call"
    /\ \E d \in SeqsUpTo(SyncBytes, MaxSyncLen) : \E n \in 0..Len(d) :
           arg = [data |-> d, len |-> n]
    /\ ret = << >>
    /\ Idle

\* find_adts_sync returns at line 93
SyncFound ==
    /\ pc = "sync_call"
    /\ find_adts_sync(arg.data, arg.len) >= 0
    /\ ret' = find_adts_sync(arg.data, arg.len)
    /\ pc' = "sync_done"
    /\ UNCHANGED arg
    /\ IdleUnchanged

\* find_adts_sync returns at line 96
SyncNotFound ==
    /\ pc = "sync_call"
    /\ find_adts_sync(arg.data, arg.len) < 0
    /\ ret' = find_adts_sync(arg.data, arg.len)
    /\ pc' = "sync_done"
    /\ UNCHANGED arg
    /\ IdleUnchanged

NextSync == SyncFound \/ SyncNotFound

SpecSync == InitSync /\ [][NextSync]_vars

(***************************************************************************)
(* Stand-alone parse_adts_header followed by dump_adts_header, on a header *)
(* and on the same header with one of its 56 bits flipped.                 *)
(***************************************************************************)
HeaderBytes ==
    {<<b0, b1, b2, b3, b4, b5, b6>> :
        b0 \in {255, 127}, b1 \in {241, 254, 225}, b2 \in {80, 173},
        b3 \in {128, 115}, b4 \in {0, 255}, b5 \in {224, 31}, b6 \in {252, 3}}

HeaderBits == 0..(8 * ADTS_HEADER_SIZE - 1)

\* data with bit k flipped, bit 0 being the most significant bit of data[0]
FlipBit(data, k) ==
    LET i == (k \div 8) + 1
        m == 2^(7 - (k % 8))
    IN [data EXCEPT ![i] = IF BitAnd(data[i], m) # 0 THEN data[i] - m ELSE data[i] + m]

\* lines 286 and 301 on one buffer: the parse result and, if parsed, the artifact
ParseAndDump(data, len) ==
    LET p == parse_adts_header(data, len)
    IN [rc |-> p.rc, hdr |-> p.hdr,
        artifact |-> IF p.rc < 0 THEN << >> ELSE dump_adts_header(0, p.hdr).b]

InitHdr ==
    /\ pc = "hdr_call"
    /\ \E d \in HeaderBytes : \E k \in HeaderBits : \E n \in {ADTS_HEADER_SIZE - 1, ADTS_HEADER_SIZE} :
           arg = [data |-> d, len |-> n, bit |-> k, other |-> FlipBit(d, k)]
    /\ ret = << >>
    /\ Idle

\* parse_adts_header returns -1 (line 56 or 60)
HdrRejected ==
    /\ pc = "hdr_call"
    /\ parse_adts_header(arg.data, arg.len).rc < 0
    /\ ret' = [one |-> ParseAndDump(arg.data, arg.len),
               two |-> ParseAndDump(arg.other, arg.len)]
    /\ pc' = "hdr_done"
    /\ UNCHANGED arg
    /\ IdleUnchanged

\* parse_adts_header returns 0 (line 79) and the record is dumped
HdrDumped ==
    /\ pc = "hdr_call"
    /\ parse_adts_header(arg.data, arg.len).rc = 0
    /\ ret' = [one |-> ParseAndDump(arg.data, arg.len),
               two |-> ParseAndDump(arg.other, arg.len)]
    /\ pc' = "hdr_done"
    /\ UNCHANGED arg
    /\ IdleUnchanged

NextHdr == HdrRejected \/ HdrDumped

SpecHdr == InitHdr /\ [][NextHdr]_vars

(***************************************************************************)
(* Vocabulary of the properties: what the log of a run holds.              *)
(***************************************************************************)
Calls(op) == {i \in DOMAIN log : log[i].op = op}
Count(op) == Cardinality(Calls(op))
WritesOf(suffix) ==
    {i \in Calls("write") : Len(log[i].a) = 3 /\ log[i].a[3] = suffix}
AdtsWrites == WritesOf("_adts.bin")
PcmWrites == WritesOf("_pcm.bin")
SummaryWrites == {i \in Calls("write") : log[i].a = InfoPath}
DecodeCalls == Calls("NeAACDecDecode")

\* zero-based number of the decoder call at log index i
FrameNo(i) == Cardinality({j \in DecodeCalls : j < i})

\* main() is past a successful NeAACDecInit
PastInit ==
    \/ pc \in {"loop", "header", "decode", "summary", "cleanup"}
    \/ pc = "exit" /\ exit_status = 0

\* some header was rejected before the first frame was handed to the decoder
RejectedBeforeFirstFrame ==
    \E i \in DecodeCalls : log[i].a > sync_offset /\ \A j \in DecodeCalls : j >= i

\* the sync pattern read without the code's operators
IsSyncAt(data, len, i) ==
    i >= 0 /\ i + 1 < len /\ data[i + 1] = 255 /\ data[i + 2] \div 16 = 15
HasSync(data) == \E i \in 0..(Len(data) - 1) : IsSyncAt(data, Len(data), i)

(***************************************************************************)
(* C1: the decode loop terminates.  Every step that returns to the loop    *)
(* head has moved pos forward, by at least 1 after a rejected header or    *)
(* frame length and by frame_length >= 7 after an accepted frame, no step  *)
(* of the loop moves pos back, and main() eventually exits.                *)
(***************************************************************************)
C1_Step ==
    /\ (pc = "header" /\ pc' = "loop" => pos' >= pos + 1)
    /\ (pc = "decode" /\ pc' = "loop" =>
            /\ pos' = pos + adts_hdr.frame_length
            /\ adts_hdr.frame_length >= ADTS_HEADER_SIZE)
    /\ (pc \in {"loop", "header", "decode"} => pos' >= pos)

C1_Terminates == [][C1_Step]_vars /\ <>(pc = "exit")

C1_Witness ==
    /\ pc = "exit" /\ exit_status = 0
    /\ frame_num >= 1
    /\ RejectedBeforeFirstFrame

(***************************************************************************)
(* C2: total_frames of the summary is the number of frames whose header    *)
(* was dumped and handed to the decoder, whatever the decoder answered;    *)
(* a run that passed initialization ends with the summary written.         *)
(***************************************************************************)
C2_TotalFrames ==
    /\ \A i \in SummaryWrites :
          /\ log[i].b.total_frames = Cardinality(DecodeCalls)
          /\ log[i].b.total_frames = Cardinality(AdtsWrites)
    /\ (pc = "exit" /\ exit_status = 0 => SummaryWrites # {})

C2_Witness ==
    /\ \E i \in SummaryWrites : log[i].b.total_frames = 2
    /\ \E j \in DecodeCalls : log[j].r.error # 0
    /\ Cardinality(PcmWrites) = 1

(***************************************************************************)
(* C3 as stated: every recoverable per-frame condition (a rejected header, *)
(* a rejected frame length, a decode error) advances frame_num by one.     *)
(***************************************************************************)
C3_OriginalStep ==
    (pc \in {"header", "decode"} /\ pc' = "loop") => (frame_num' = frame_num + 1)

C3_Original == [][C3_OriginalStep]_vars

(***************************************************************************)
(* C3 amended: frame_num is incremented exactly once for every frame       *)
(* handed to the decoder, decode error or not; a rejected header or frame  *)
(* length leaves frame_num unchanged, as does every other loop step.       *)
(***************************************************************************)
C3_AmendedStep ==
    /\ (pc = "decode" => frame_num' = frame_num + 1)
    /\ (pc \in {"loop", "header"} => frame_num' = frame_num)

C3_Amended == [][C3_AmendedStep]_vars

C3_Witness ==
    /\ pc = "exit" /\ exit_status = 0
    /\ input = ShortLen \o Frame7 \o LoneFF
    /\ pos = 14 /\ frame_num = 1
    /\ \E j \in DecodeCalls : log[j].r.error # 0

(***************************************************************************)
(* C4: header round trip.  The 16-byte artifact of an accepted header      *)
(* determines every field of the parsed record: two accepted headers with  *)
(* the same artifact have the same field values.                           *)
(***************************************************************************)
C4_RoundTrip ==
    (pc = "hdr_done" /\ ret.one.rc = 0 /\ ret.two.rc = 0
        /\ ret.one.artifact = ret.two.artifact)
    => ret.one.hdr = ret.two.hdr

(***************************************************************************)
(* C5: find_adts_sync returns the lowest index i with i + 1 < len,         *)
(* data[i] = 0xFF and the top nibble of data[i+1] = 0xF, and -1 if and     *)
(* only if there is no such index.                                         *)
(***************************************************************************)
C5_FindSync ==
    pc = "sync_done" =>
        LET hits == {i \in 0..(arg.len - 1) : IsSyncAt(arg.data, arg.len, i)}
        IN  /\ (ret = -1 <=> hits = {})
            /\ (hits # {} => ret \in hits /\ \A j \in hits : ret <= j)

C5_Witness ==
    /\ pc = "sync_done"
    /\ ret = 2
    /\ arg.data[1] = 255

(***************************************************************************)
(* C6: with max_frames <= 0, a run that passed initialization has called   *)
(* NeAACDecInit, never enters a loop iteration, never calls the decoder    *)
(* for a frame, writes no frame artifact, and its summary carries          *)
(* total_frames = 0 and total_samples = 0.                                 *)
(***************************************************************************)
C6_MaxFramesZero ==
    (max_frames <= 0 /\ PastInit) =>
        /\ Calls("NeAACDecInit") # {}
        /\ pc \notin {"header", "decode"}
        /\ DecodeCalls = {}
        /\ AdtsWrites = {} /\ PcmWrites = {}
        /\ (pc \in {"cleanup", "exit"} =>
               \E i \in SummaryWrites :
                   /\ SummaryWrites = {i}
                   /\ log[i].b.total_frames = 0
                   /\ log[i].b.total_samples = 0)

C6_Witness ==
    /\ pc = "exit" /\ exit_status = 0
    /\ max_frames = 0
    /\ input = Frame7 \o Frame9 \o Junk

(***************************************************************************)
(* C7: the buffer is freed at most once and the decoder closed at most     *)
(* once, never before being acquired; at exit each acquired resource has   *)
(* been released; nothing reads the buffer or calls the decoder after the  *)
(* release.                                                                *)
(***************************************************************************)
C7_Cleanup ==
    /\ Count("free") <= Count("malloc") /\ Count("malloc") <= 1
    /\ Count("NeAACDecClose") <= Count("NeAACDecOpen") /\ Count("NeAACDecOpen") <= 1
    /\ (pc = "exit" =>
            /\ Count("free") = Count("malloc")
            /\ Count("NeAACDecClose") = Count("NeAACDecOpen"))
    /\ \A i \in Calls("free") : \A j \in DOMAIN log :
            j > i => log[j].op \notin {"NeAACDecInit", "NeAACDecDecode"}
    /\ \A i \in Calls("NeAACDecClose") : \A j \in DOMAIN log :
            j > i => log[j].op \notin {"NeAACDecInit", "NeAACDecDecode"}
    /\ (pc \in {"sync", "NeAACDecOpen", "NeAACDecInit", "loop", "header",
                "decode", "summary", "cleanup"}
            => Count("malloc") = 1 /\ Count("free") = 0)
    /\ (pc \in {"NeAACDecInit", "loop", "header", "decode", "summary", "cleanup"}
            => Count("NeAACDecOpen") = 1 /\ Count("NeAACDecClose") = 0)

C7_Witness ==
    /\ pc = "exit" /\ exit_status = 1
    /\ Count("NeAACDecOpen") = 1 /\ Count("NeAACDecClose") = 1
    /\ Count("free") = 1

(***************************************************************************)
(* C8: every frame handed to the decoder, decode error or not, has exactly *)
(* one header artifact, written just before the call under the frame's own *)
(* index from a header that parsed and passed the length validation; a     *)
(* sample artifact follows only a decode without error and with            *)
(* samples > 0, so the pcm indices are a subset of the adts indices.       *)
(***************************************************************************)
C8_Artifacts ==
    /\ \A i \in DecodeCalls :
          LET p == parse_adts_header(PtrAdd(input, log[i].a), Len(input) - log[i].a)
          IN  /\ i > 1
              /\ p.rc = 0
              /\ p.hdr.frame_length >= ADTS_HEADER_SIZE
              /\ log[i].a + p.hdr.frame_length <= Len(input)
              /\ log[i - 1] = dump_adts_header(FrameNo(i), p.hdr)
    /\ \A w \in AdtsWrites : w + 1 \in DecodeCalls \/ (pc = "decode" /\ w = Len(log))
    /\ \A w1, w2 \in AdtsWrites : w1 # w2 => log[w1].a # log[w2].a
    /\ \A q \in PcmWrites :
          /\ q - 1 \in DecodeCalls
          /\ log[q - 1].r.error = 0
          /\ log[q - 1].r.samples > 0
          /\ log[q].a = PcmPath(FrameNo(q - 1))
    /\ {log[q].a[2] : q \in PcmWrites} \subseteq {log[w].a[2] : w \in AdtsWrites}

C8_Witness ==
    /\ pc = "exit"
    /\ \E i \in DecodeCalls : log[i].r.error # 0 /\ i - 1 \in AdtsWrites
    /\ \E j \in DecodeCalls : log[j].r.error = 0 /\ log[j].r.samples = 0
    /\ PcmWrites # {}

(***************************************************************************)
(* C9: no two writes of a run go to the same path.                         *)
(***************************************************************************)
C9_NoOverwrite ==
    \A i, j \in Calls("write") : i # j => log[i].a # log[j].a

C9_Witness ==
    /\ pc = "exit"
    /\ Cardinality(AdtsWrites) = 3
    /\ Cardinality(PcmWrites) >= 2
    /\ SummaryWrites # {}

(***************************************************************************)
(* C10: an input without a sync word, the empty input included, never      *)
(* gets past the sync check: the decoder is never opened, nothing is       *)
(* written, and main() returns a non-zero status.                          *)
(***************************************************************************)
C10_NoSyncFatal ==
    ~HasSync(input) =>
        /\ pc \in {"fopen", "malloc", "fread", "sync", "exit"}
        /\ Calls("NeAACDecOpen") = {}
        /\ Calls("write") = {}
        /\ (pc = "exit" => exit_status = 1)

C10_Witness ==
    /\ pc = "exit"
    /\ ~HasSync(input) /\ Len(input) > 0
    /\ Len(log) = 4
    /\ log[4].op = "free" /\ log[3].op = "fclose"

(***************************************************************************)
(* C11: recoverable per-frame conditions never abort the run.  A run that  *)
(* passed decoder initialization stays on the normal path whatever headers *)
(* are rejected and whatever the decoder reports, exits with status 0 and  *)
(* with the summary written, and does reach that exit; status 1 is         *)
(* returned only from the fatal checks at fopen, malloc, fread, the first  *)
(* sync search, NeAACDecOpen and NeAACDecInit.                             *)
(***************************************************************************)
C11_Step ==
    /\ (PastInit => PastInit')
    /\ (pc' = "exit" /\ exit_status' = 0 => SummaryWrites' # {})
    /\ (pc' = "exit" /\ exit_status' = 1 =>
            pc \in {"fopen", "malloc", "fread", "sync", "NeAACDecOpen",
                    "NeAACDecInit", "exit"})
    /\ (pc' = "exit" => exit_status' \in {0, 1})

C11_Recoverable ==
    [][C11_Step]_vars /\ (PastInit ~> (pc = "exit" /\ exit_status = 0))

C11_Witness ==
    /\ pc = "exit" /\ exit_status = 0
    /\ SummaryWrites # {}
    /\ \E j \in DecodeCalls : log[j].r.error # 0
    /\ \E j \in DecodeCalls : j > 1 /\ log[j].a > 0 /\ log[j].a > sync_offset
    /\ pos < Len(input)

(***************************************************************************)
(* The 56 header bits read most significant bit first, without the code's  *)
(* shifts and masks.                                                       *)
(***************************************************************************)
RefBit(data, k) == (data[(k \div 8) + 1] \div 2^(7 - (k % 8))) % 2

RECURSIVE RefField(_, _, _)
RefField(data, start, width) ==
    IF width = 0 THEN 0
    ELSE 2 * RefField(data, start, width - 1) + RefBit(data, start + width - 1)

\* the declared frame_length of the header at offset off of the input
RefFrameLength(off) == RefField(PtrAdd(input, off), 30, 13)

(***************************************************************************)
(* C12 as stated: the length handed to NeAACDecDecode equals the declared  *)
(* frame_length of the frame.                                              *)
(***************************************************************************)
C12_Original ==
    \A i \in DecodeCalls : log[i].b = RefFrameLength(log[i].a)

(***************************************************************************)
(* C12 amended: NeAACDecDecode is called with the frame's offset and the   *)
(* length of the whole remainder of the stream, file_size - offset, which  *)
(* is at least the declared frame_length.                                  *)
(***************************************************************************)
C12_Amended ==
    \A i \in DecodeCalls :
        /\ log[i].b = Len(input) - log[i].a
        /\ log[i].b >= RefFrameLength(log[i].a)

C12_Witness ==
    \E i \in DecodeCalls :
        /\ RefFrameLength(log[i].a) = 7
        /\ log[i].b = 14

\* the header at offset off of the input is one the loop rejects
RefRejected(off) ==
    \/ Len(input) - off < 7
    \/ ~IsSyncAt(input, Len(input), off)
    \/ RefFrameLength(off) < 7
    \/ off + RefFrameLength(off) > Len(input)

(***************************************************************************)
(* C13: at a found sync offset whose header does not parse, or declares    *)
(* frame_length < 7, or a frame running past the end of the stream, the    *)
(* step moves pos to exactly offset + 1, leaves frame_num and              *)
(* total_samples unchanged, makes no write and no decoder call, and        *)
(* returns to the loop head.                                               *)
(***************************************************************************)
C13_Step ==
    (pc = "header" /\ RefRejected(pos)) =>
        /\ pos' = pos + 1
        /\ frame_num' = frame_num
        /\ total_samples' = total_samples
        /\ log' = log
        /\ pc' = "loop"

C13_RejectStep == [][C13_Step]_vars

C13_Witness ==
    /\ pc = "loop"
    /\ frame_num = 1 /\ total_samples = 1024
    /\ RefRejected(pos - 1)
    /\ IsSyncAt(input, Len(input), pos - 1)
    /\ log[Len(log)].op = "write" /\ log[Len(log)].a = PcmPath(0)
    /\ pos - 1 = log[Len(log) - 1].a + RefFrameLength(log[Len(log) - 1].a)

(***************************************************************************)
(* C14: a validated frame at offset, whatever the decoder reports (error,  *)
(* samples or none, any count of consumed bytes), ends its step at         *)
(* pos = offset + frame_length with frame_num incremented by one.          *)
(***************************************************************************)
C14_Step ==
    pc = "decode" =>
        /\ pos' = pos + RefFrameLength(pos)
        /\ frame_num' = frame_num + 1
        /\ pc' = "loop"

C14_Advance == [][C14_Step]_vars

C14_Witness ==
    /\ pc = "loop"
    /\ Len(log) > 0
    /\ log[Len(log)].op = "NeAACDecDecode"
    /\ log[Len(log)].r.error # 0
    /\ log[Len(log)].r.bytesconsumed # RefFrameLength(log[Len(log)].a)
    /\ RefFrameLength(log[Len(log)].a) = 9
    /\ pos = log[Len(log)].a + 9
    /\ frame_num = 2

\* the header record read field by field with the widths of the ADTS header
RefHeader(data) ==
    [syncword |-> RefField(data, 0, 12),
     id |-> RefField(data, 12, 1),
     layer |-> RefField(data, 13, 2),
     protection_absent |-> RefField(data, 15, 1),
     profile |-> RefField(data, 16, 2),
     sf_index |-> RefField(data, 18, 4),
     private_bit |-> RefField(data, 22, 1),
     channel_config |-> RefField(data, 23, 3),
     original |-> RefField(data, 26, 1),
     home |-> RefField(data, 27, 1),
     copyright_bit |-> RefField(data, 28, 1),
     copyright_start |-> RefField(data, 29, 1),
     frame_length |-> RefField(data, 30, 13),
     buffer_fullness |-> RefField(data, 43, 11),
     num_raw_blocks |-> RefField(data, 54, 2)]

(***************************************************************************)
(* C15: parse_adts_header fails if and only if len < 7 or the first 12     *)
(* bits are not all set; otherwise every field is the value of its bits    *)
(* read most significant bit first with widths 12, 1, 2, 1, 2, 4, 1, 3, 1, *)
(* 1, 1, 1, 13, 11, 2, and no field value is rejected.                     *)
(***************************************************************************)
C15_ParseOne(data, len, res) ==
    /\ (res.rc < 0 <=> (len < 7 \/ RefField(data, 0, 12) # 4095))
    /\ (res.rc >= 0 => res.rc = 0 /\ res.hdr = RefHeader(data))

C15_Parse ==
    pc = "hdr_done" =>
        /\ C15_ParseOne(arg.data, arg.len, ret.one)
        /\ C15_ParseOne(arg.other, arg.len, ret.two)

C15_Witness ==
    /\ pc = "hdr_done"
    /\ ret.two.rc = 0
    /\ ret.two.hdr.sf_index = 15
    /\ ret.two.hdr.frame_length < 7
    /\ ret.two.hdr.buffer_fullness > 1024

\* samples per channel of the frames among the first n calls of the log that
\* decoded without error and with samples > 0
RECURSIVE RefTotal(_)
RefTotal(n) ==
    IF n = 0 THEN 0
    ELSE RefTotal(n - 1) +
         (IF /\ log[n].op = "NeAACDecDecode"
             /\ log[n].r.error = 0
             /\ log[n].r.samples > 0
          THEN log[n].r.samples \div log[n].r.channels
          ELSE 0)

(***************************************************************************)
(* C16: total_samples, in the loop and in the summary, is the sum of       *)
(* samples / channels over the frames that decoded without error and with  *)
(* samples > 0; decode errors, frames without samples and rejected headers *)
(* add nothing.                                                            *)
(***************************************************************************)
C16_TotalSamples ==
    /\ (PastInit => total_samples = RefTotal(Len(log)))
    /\ \A i \in SummaryWrites : log[i].b.total_samples = RefTotal(i)

C16_Witness ==
    /\ \E i \in SummaryWrites : log[i].b.total_samples = 1024
    /\ \E j \in DecodeCalls :
          (log[j].r.error # 0) \/ (log[j].r.error = 0 /\ log[j].r.samples = 0)
    /\ RejectedBeforeFirstFrame

\* the values NeAACDecInit returned
InitReturned == log[CHOOSE i \in Calls("NeAACDecInit") : TRUE].r

(***************************************************************************)
(* C17: a run that passes initialization writes the summary exactly once,  *)
(* after every frame artifact and decoder call and before NeAACDecClose    *)
(* and free, whichever way the loop ends, and the summary carries          *)
(* frame_num, the sample_rate and channels of NeAACDecInit and             *)
(* total_samples.                                                          *)
(***************************************************************************)
C17_Summary ==
    /\ Cardinality(SummaryWrites) <= 1
    /\ (pc \in {"loop", "header", "decode", "summary"} => SummaryWrites = {})
    /\ (pc = "cleanup" \/ (pc = "exit" /\ exit_status = 0)
            => Cardinality(SummaryWrites) = 1)
    /\ (pc = "exit" /\ exit_status = 1 => SummaryWrites = {})
    /\ \A i \in SummaryWrites :
          /\ \A j \in AdtsWrites \cup PcmWrites \cup DecodeCalls : j < i
          /\ \A j \in Calls("NeAACDecClose") \cup Calls("free") : j > i
          /\ log[i].b = [sample_rate |-> InitReturned.sample_rate,
                         channels |-> InitReturned.channels,
                         total_frames |-> frame_num,
                         total_samples |-> total_samples]

C17_Witness ==
    /\ pc = "exit" /\ exit_status = 0
    /\ max_frames = 1 /\ frame_num = 1
    /\ HasSync(PtrAdd(input, pos))
    /\ PcmWrites # {}
    /\ log[Len(log) - 2].a = InfoPath

(***************************************************************************)
(* C18: sample_rate and channels are assigned by NeAACDecInit only: they   *)
(* are 0 before it, no later step changes them, and the summary carries    *)
(* the values NeAACDecInit returned even when a decoded frame reports      *)
(* another channel count.                                                  *)
(***************************************************************************)
C18_Step ==
    pc # "NeAACDecInit" => UNCHANGED <<sample_rate, channels>>

C18_State ==
    /\ (PastInit =>
            /\ Cardinality(Calls("NeAACDecInit")) = 1
            /\ sample_rate = InitReturned.sample_rate
            /\ channels = InitReturned.channels)
    /\ (~PastInit => sample_rate = 0 /\ channels = 0)
    /\ \A i \in SummaryWrites :
            /\ log[i].b.sample_rate = InitReturned.sample_rate
            /\ log[i].b.channels = InitReturned.channels

C18_InitOnly == [][C18_Step]_vars /\ []C18_State

C18_Witness ==
    /\ pc = "exit" /\ exit_status = 0
    /\ \E i \in SummaryWrites : log[i].b.channels = 1 /\ log[i].b.sample_rate = 48000
    /\ \E j \in DecodeCalls : log[j].r.error = 0 /\ log[j].r.channels = 2

(***************************************************************************)
(* C19: in the decode loop sync_offset <= pos <= file_size and pos never   *)
(* decreases; a header is parsed only at an offset whose sync pair lies    *)
(* inside the buffer, and NeAACDecInit and NeAACDecDecode are given an     *)
(* offset and a length with offset + length <= file_size, the frame        *)
(* itself included.                                                        *)
(***************************************************************************)
C19_Step ==
    (PastInit /\ pc # "exit") => pos' >= pos

C19_State ==
    /\ (PastInit =>
            /\ IsSyncAt(input, Len(input), sync_offset)
            /\ sync_offset <= pos
            /\ pos <= Len(input))
    /\ (pc = "header" => pos + 1 < Len(input))
    /\ (pc = "decode" => pos + adts_hdr.frame_length <= Len(input))
    /\ \A i \in DecodeCalls \cup Calls("NeAACDecInit") :
            /\ log[i].a >= sync_offset
            /\ log[i].b >= 0
            /\ log[i].a + log[i].b <= Len(input)
    /\ \A i \in DecodeCalls :
            log[i].a + RefFrameLength(log[i].a) <= Len(input)

C19_Bounds == [][C19_Step]_vars /\ []C19_State

C19_Witness ==
    /\ pc = "loop"
    /\ sync_offset > 0
    /\ frame_num = 2
    /\ pos = Len(input)
    /\ \A i \in DecodeCalls : log[i].a + log[i].b = Len(input)

(***************************************************************************)
(* C20: with max_frames >= 0, frame_num never exceeds max_frames: at most  *)
(* max_frames header artifacts are written and at most max_frames decoder  *)
(* calls are made, and total_frames of the summary is <= max_frames.       *)
(* frame_num is the number of decoder calls, so rejected headers do not    *)
(* count against max_frames.                                               *)
(***************************************************************************)
C20_MaxFrames ==
    /\ (PastInit =>
            frame_num = Cardinality(DecodeCalls))
    /\ (max_frames >= 0 =>
            /\ frame_num <= max_frames
            /\ Cardinality(AdtsWrites) <= max_frames
            /\ Cardinality(DecodeCalls) <= max_frames
            /\ \A i \in SummaryWrites : log[i].b.total_frames <= max_frames)

C20_Witness ==
    /\ pc = "exit" /\ exit_status = 0
    /\ max_frames = 1
    /\ Cardinality(DecodeCalls) = 1
    /\ RejectedBeforeFirstFrame
    /\ ~RefRejected(pos)

====
